---- MODULE Spec2Model ----
(***************************************************************************)
(* Model of data_diff/cloud/data_source.py.                                *)
(*                                                                         *)
(* Spec          _test_data_source alone: submit a test job, poll its      *)
(*               sub-checks with a doubling delay, report SKIP for what    *)
(*               did not finish in time.                                   *)
(* SpecWorkflow  get_or_create_data_source, which reuses or creates a data *)
(*               source and may call _test_data_source on the new one.     *)
(* SpecPrompt    TemporarySchemaPrompt, asking until the value is valid.   *)
(*                                                                         *)
(* Time is a discrete clock.  A remote call advances it by its latency, a  *)
(* sleep advances it by the delay slept; everything else takes no time.    *)
(* The snapshot returned by one status poll is consumed by the for loop    *)
(* of lines 112-120 one entry per step; its entries are the inputs of      *)
(* those steps.                                                            *)
(***************************************************************************)
EXTENDS Integers, Sequences, FiniteSets, TLC

\* ------------------------------------------------------------------ bounds
MaxTimeout == 3
MaxLatency == 1
MaxSnapshot == 2
MaxJobId == 2
MaxLen == 4
MaxDataSources == 2

\* --------------------------------------------------------------- constants
DefaultTimeout == 64
InitialSeconds == 1

CheckedTests == {"connection", "temp_schema", "schema_download"}

\* TestDataSourceStatus, as far as this file and the spec name its members
SKIP == "SKIP"
FAILED == "FAILED"
DONE == "DONE"
TestDataSourceStatus == {DONE, FAILED, SKIP}

\* ------------------------------------------------------------------ inputs
Timeouts == (0..MaxTimeout) \cup {DefaultTimeout}
Latencies == 0..MaxLatency
JobIds == 1..MaxJobId
DataSourceIds == {1}
TestNames == CheckedTests \cup {"other"}
Messages == {<<"m">>}
NoResult == [status |-> "none", message |-> <<>>]

\* one element of the list returned by api.check_data_source_test_results
DoneTests ==
  [name : TestNames, status : {"done"}, result : [status : TestDataSourceStatus, message : Messages]]
RunningTests ==
  [name : TestNames, status : {"running"}, result : {NoResult}]
TCloudApiDataSourceTestResult == DoneTests \cup RunningTests

\* ----------------------------------------------------------------- helpers
DigitChars == <<"0", "1", "2", "3", "4", "5", "6", "7", "8", "9">>

RECURSIVE IntToStr(_)
\* str(n) of a non-negative int, as the sequence of its decimal digits
IntToStr(n) ==
  IF n < 10 THEN <<DigitChars[n + 1]>>
  ELSE IntToStr(n \div 10) \o <<DigitChars[(n % 10) + 1]>>

Range(s) == {s[k] : k \in 1..Len(s)}

\* the orders in which a for loop may visit the elements of a set
Orders(S) == {s \in [1..Cardinality(S) -> S] : Range(s) = S}

VARIABLES
  pc,             \* position in _test_data_source
  data_source_id, \* argument
  timeout,        \* argument
  clock,          \* time.monotonic()
  job_id, checked_tests, seconds, start, results,   \* locals, lines 104-109
  i,              \* number of entries of the current snapshot already visited
  raised,         \* the call that raised, "" when none
  submitted,      \* history: the handles api.test_data_source returned
  pollJobs,       \* history: the argument of every status poll
  sleeps,         \* history: the duration of every sleep
  doneLog,        \* history: tracked entries in the order first seen done
  staleSeen,      \* history: a done entry arrived for a name resolved before
  expired,        \* history: a timeout check found the deadline exceeded
  wpc,            \* position in get_or_create_data_source
  ds_name, ds, run_tests,        \* its locals, lines 185-204
  wreturn,        \* the identifier it returned, 0 when none
  wraised,        \* what it raised, "" when nothing
  matches,        \* history: ids of the listed data sources named ds_name
  reused,         \* history: the operator accepted an existing data source
  configured,     \* history: create_ds_config has prompted
  created,        \* history: number of api.create_data_source calls
  rendered,       \* history: the result lists handed to the renderer
  ppc,            \* position in TemporarySchemaPrompt.ask
  value,          \* the text typed at the prompt
  response,       \* the value the prompt returned
  reprompted      \* history: the prompt rejected a value

locals == <<job_id, checked_tests, seconds, start, results>>
history == <<submitted, pollJobs, sleeps, doneLog, staleSeen, expired>>
workflow == <<wpc, ds_name, ds, run_tests, wreturn, wraised, matches, reused,
              configured, created, rendered>>
prompt == <<ppc, value, response, reprompted>>

vars == <<pc, data_source_id, timeout, clock, job_id, checked_tests, seconds,
          start, results, i, raised, submitted, pollJobs, sleeps, doneLog,
          staleSeen, expired, workflow, prompt>>

\* no data source: what _check_data_source_exists returns at line 100
None == [id |-> 0, name |-> ""]

\* get_or_create_data_source is not running
WorkflowIdle ==
  /\ wpc = "idle"
  /\ ds_name = ""
  /\ ds = None
  /\ run_tests = "unasked"
  /\ wreturn = 0
  /\ wraised = ""
  /\ matches = {}
  /\ reused = FALSE
  /\ configured = FALSE
  /\ created = 0
  /\ rendered = <<>>

\* TemporarySchemaPrompt.ask is not running
PromptIdle ==
  /\ ppc = "idle"
  /\ value = <<>>
  /\ response = <<>>
  /\ reprompted = FALSE

\* _test_data_source is not running
VerifierIdle ==
  /\ clock = 0
  /\ job_id = 0
  /\ checked_tests = {}
  /\ seconds = 0
  /\ start = 0
  /\ results = <<>>
  /\ i = 0
  /\ raised = ""
  /\ submitted = <<>>
  /\ pollJobs = <<>>
  /\ sleeps = <<>>
  /\ doneLog = <<>>
  /\ staleSeen = FALSE
  /\ expired = FALSE

Init ==
  /\ pc = "submit"
  /\ data_source_id \in DataSourceIds
  /\ timeout \in Timeouts
  /\ clock = 0
  /\ job_id = 0
  /\ checked_tests = {}
  /\ seconds = 0
  /\ start = 0
  /\ results = <<>>
  /\ i = 0
  /\ raised = ""
  /\ submitted = <<>>
  /\ pollJobs = <<>>
  /\ sleeps = <<>>
  /\ doneLog = <<>>
  /\ staleSeen = FALSE
  /\ expired = FALSE
  /\ WorkflowIdle
  /\ PromptIdle

\* ------------------------------------------------- pieces of the function

\* lines 118-120: the stage built from a sub-check that reported done
TDataSourceTestStage(test) ==
  [name |-> test.name, status |-> test.result.status, description |-> test.result.message]

\* line 131: f'Does not complete in {timeout} seconds'
TimeoutDescriptionOfSeconds ==
  <<"Does not complete in ">> \o IntToStr(seconds) \o <<" seconds">>
TimeoutDescription ==
  <<"Does not complete in ">> \o IntToStr(timeout) \o <<" seconds">>

\* lines 128-132
SkipStage(test_name) ==
  [name |-> test_name, status |-> SKIP, description |-> TimeoutDescription]

\* lines 113-116: the entry is tracked, still pending and reported done
IsNewlyDoneInTime(test) ==
  test.name \in checked_tests /\ test.status = "done" /\ ~(clock - start > timeout)
IsNewlyDoneUnguarded(test) == test.status = "done" /\ test.name \in CheckedTests
IsNewlyDone(test) == test.name \in checked_tests /\ test.status = "done"

\* lines 118, 127: results.append
AppendStageReplacing(res, stage) == <<stage>>
AppendStageInFront(res, stage) == <<stage>> \o res
AppendStage(res, stage) == Append(res, stage)

\* lines 126-133: one SKIP stage per name still pending, in the set's order
NoTimeoutStages(order) == <<>>
TimeoutStages(order) == [k \in 1..Len(order) |-> SkipStage(order[k])]

\* line 125
TimedOut == clock - start > timeout

\* lines 122-135: where the iteration goes after the snapshot was applied
AfterSnapshotIgnoringCompletion ==
  IF TimedOut THEN "timeout" ELSE "sleep"
AfterSnapshot ==
  IF checked_tests = {} THEN "complete"
  ELSE IF TimedOut THEN "timeout" ELSE "sleep"

\* line 134: break
AfterTimeoutNoBreak == "sleep"
AfterTimeoutRaises == "raised"
AfterTimeout == "returned"

\* line 136
NextSecondsTripled == seconds * 3
NextSecondsCapped == IF seconds * 2 > 4 THEN 4 ELSE seconds * 2
NextSeconds == seconds * 2

\* line 111: the handle the status poll is made with
PollArgumentDataSource == data_source_id
PollArgument == job_id

\* line 104: api.test_data_source raised; no try encloses the call
AfterSubmitRaisesSwallowed == "poll"
AfterSubmitRaises == "raised"

\* line 111: api.check_data_source_test_results raised; no try encloses it
AfterPollRaisesRetry == "sleep"
AfterPollRaises == "raised"

\* ----------------------------------------------------------------- actions

\* lines 104-109: the job is submitted, then the locals are initialised.
\* Only clock - start is ever looked at, so the submission is given one
\* latency, the longest, which keeps start apart from the clock's origin.
Submit ==
  /\ pc = "submit"
  /\ \E handle \in JobIds :
       /\ job_id' = handle
       /\ submitted' = Append(submitted, handle)
  /\ clock' = clock + MaxLatency
  /\ start' = clock + MaxLatency
  /\ checked_tests' = CheckedTests
  /\ seconds' = InitialSeconds
  /\ results' = <<>>
  /\ pc' = "poll"
  /\ UNCHANGED <<data_source_id, timeout, i, raised, pollJobs, sleeps, doneLog,
                 staleSeen, expired>>
  /\ UNCHANGED <<workflow, prompt>>

\* line 104: api.test_data_source raises; nothing catches it
SubmitRaises ==
  /\ pc = "submit"
  /\ clock' = clock + MaxLatency
  /\ raised' = "test_data_source"
  /\ pc' = AfterSubmitRaises
  /\ UNCHANGED <<data_source_id, timeout, locals, i, history>>
  /\ UNCHANGED <<workflow, prompt>>

\* line 111: one status poll returns a snapshot
Poll ==
  /\ pc = "poll"
  /\ \E latency \in Latencies : clock' = clock + latency
  /\ pollJobs' = Append(pollJobs, PollArgument)
  /\ i' = 0
  /\ pc' = "for"
  /\ UNCHANGED <<data_source_id, timeout, locals, raised, submitted, sleeps,
                 doneLog, staleSeen, expired>>
  /\ UNCHANGED <<workflow, prompt>>

\* line 111: api.check_data_source_test_results raises; nothing catches it
PollRaises ==
  /\ pc = "poll"
  /\ \E latency \in Latencies : clock' = clock + latency
  /\ pollJobs' = Append(pollJobs, PollArgument)
  /\ raised' = "check_data_source_test_results"
  /\ pc' = AfterPollRaises
  /\ UNCHANGED <<data_source_id, timeout, locals, i, submitted, sleeps,
                 doneLog, staleSeen, expired>>
  /\ UNCHANGED <<workflow, prompt>>

\* lines 112-120: the loop body, for the next entry of the snapshot
ForTest ==
  /\ pc = "for"
  /\ i < MaxSnapshot
  /\ \E test \in TCloudApiDataSourceTestResult :
       /\ IF IsNewlyDone(test)
            THEN /\ checked_tests' = checked_tests \ {test.name}
                 /\ results' = AppendStage(results, TDataSourceTestStage(test))
            ELSE UNCHANGED <<checked_tests, results>>
       /\ doneLog' =
            IF /\ test.status = "done"
               /\ test.name \in CheckedTests
               /\ \A k \in 1..Len(doneLog) : doneLog[k].name # test.name
              THEN Append(doneLog, test)
              ELSE doneLog
       /\ staleSeen' =
            (staleSeen \/ (/\ test.status = "done"
                           /\ test.name \in CheckedTests \ checked_tests))
  /\ i' = i + 1
  /\ UNCHANGED <<pc, data_source_id, timeout, clock, job_id, seconds, start,
                 raised, submitted, pollJobs, sleeps, expired>>
  /\ UNCHANGED <<workflow, prompt>>

\* lines 122-134: the snapshot is exhausted; completion check, timeout check
Check ==
  /\ pc = "for"
  /\ expired' = (expired \/ (checked_tests # {} /\ clock - start > timeout))
  /\ \/ /\ AfterSnapshot = "complete"
        /\ pc' = "returned"
        /\ UNCHANGED results
     \/ /\ AfterSnapshot = "timeout"
        /\ \E order \in Orders(checked_tests) :
             results' = results \o TimeoutStages(order)
        /\ pc' = AfterTimeout
     \/ /\ AfterSnapshot = "sleep"
        /\ pc' = "sleep"
        /\ UNCHANGED results
  /\ UNCHANGED <<data_source_id, timeout, clock, job_id, checked_tests, seconds,
                 start, i, raised, submitted, pollJobs, sleeps, doneLog,
                 staleSeen>>
  /\ UNCHANGED <<workflow, prompt>>

\* lines 135-136: time.sleep(seconds); seconds *= 2
Sleep ==
  /\ pc = "sleep"
  /\ clock' = clock + seconds
  /\ sleeps' = Append(sleeps, seconds)
  /\ seconds' = NextSeconds
  /\ pc' = "poll"
  /\ UNCHANGED <<data_source_id, timeout, job_id, checked_tests, start, results,
                 i, raised, submitted, pollJobs, doneLog, staleSeen,
                 expired>>
  /\ UNCHANGED <<workflow, prompt>>

Next ==
  \/ Submit
  \/ SubmitRaises
  \/ Poll
  \/ PollRaises
  \/ ForTest
  \/ Check
  \/ Sleep

Spec == Init /\ [][Next]_vars

TypeOK ==
  /\ pc \in {"idle", "submit", "poll", "for", "sleep", "returned", "raised"}
  /\ checked_tests \subseteq CheckedTests
  /\ i \in 0..MaxSnapshot
  /\ clock >= start

\* ------------------------------------------------- TemporarySchemaPrompt

\* the characters the operator types: two letters and the separator
Chars == {"m", "p", "."}
Typed == UNION {[1..n -> Chars] : n \in 0..MaxLen}

RECURSIVE Split(_)
\* value.split('.'): the pieces between the separators, empty ones included
Split(str) ==
  IF \A k \in 1..Len(str) : str[k] # "."
    THEN <<str>>
    ELSE LET dot == CHOOSE k \in 1..Len(str) :
                      str[k] = "." /\ \A j \in 1..(k - 1) : str[j] # "."
         IN  <<SubSeq(str, 1, dot - 1)>> \o Split(SubSeq(str, dot + 1, Len(str)))

\* line 41: the condition under which process_response raises InvalidResponse
InvalidResponseAtMostOne(str) == Len(Split(str)) < 2
InvalidResponse(str) == Len(Split(str)) # 2

InitPrompt ==
  /\ pc = "idle"
  /\ data_source_id = 0
  /\ timeout = 0
  /\ VerifierIdle
  /\ WorkflowIdle
  /\ ppc = "ask"
  /\ value = <<>>
  /\ response = <<>>
  /\ reprompted = FALSE

\* line 54: the prompt is shown and the operator types a value
PromptAsk ==
  /\ ppc = "ask"
  /\ value' \in Typed
  /\ ppc' = "process"
  /\ UNCHANGED <<response, reprompted>>
  /\ UNCHANGED <<pc, data_source_id, timeout, clock, locals, i, raised, history,
                 workflow>>

\* lines 38-43: process_response; the prompt asks again on InvalidResponse
\* and returns the value otherwise
ProcessResponse ==
  /\ ppc = "process"
  /\ IF InvalidResponse(value)
       THEN /\ ppc' = "ask"
            /\ reprompted' = TRUE
            /\ UNCHANGED response
       ELSE /\ ppc' = "returned"
            /\ response' = value
            /\ UNCHANGED reprompted
  /\ UNCHANGED value
  /\ UNCHANGED <<pc, data_source_id, timeout, clock, locals, i, raised, history,
                 workflow>>

NextPrompt ==
  \/ PromptAsk
  \/ ProcessResponse

SpecPrompt == InitPrompt /\ [][NextPrompt]_vars

\* -------------------------------------------- get_or_create_data_source

Names == {"prod", "dev"}
ListedIds == {2, 3}
\* what api.get_data_sources may return
DataSourceLists ==
  UNION {[1..n -> [id : ListedIds, name : Names]] : n \in 0..MaxDataSources}

\* lines 93-100: the first listed data source of that name, or None
CheckDataSourceExistsAnyName(data_sources, data_source_name) ==
  IF data_sources = <<>> THEN None ELSE data_sources[1]
CheckDataSourceExists(data_sources, data_source_name) ==
  IF \A k \in 1..Len(data_sources) : data_sources[k].name # data_source_name
    THEN None
    ELSE data_sources[CHOOSE k \in 1..Len(data_sources) :
                        /\ data_sources[k].name = data_source_name
                        /\ \A j \in 1..(k - 1) :
                             data_sources[j].name # data_source_name]

\* lines 191-193: the existing data source was accepted
AfterReuseAcceptedFallsThrough == "config"
AfterReuseAccepted == "done"

\* line 205: if run_tests
RunsTestsAlways(answer) == TRUE
RunsTests(answer) == answer

\* lines 206-207: the results are rendered once the verifier has returned
AfterTestsUnrendered == "verdict"
AfterTests == "render"

\* line 208: any(result.status == TestDataSourceStatus.FAILED ...)
AnyNotDone(test_results) ==
  \E k \in 1..Len(test_results) : test_results[k].status # DONE
AnyFailed(test_results) ==
  \E k \in 1..Len(test_results) : test_results[k].status = FAILED

InitWorkflow ==
  /\ pc = "idle"
  /\ data_source_id = 0
  /\ timeout = 0
  /\ VerifierIdle
  /\ wpc = "select"
  /\ ds_name = ""
  /\ ds = None
  /\ run_tests = "unasked"
  /\ wreturn = 0
  /\ wraised = ""
  /\ matches = {}
  /\ reused = FALSE
  /\ configured = FALSE
  /\ created = 0
  /\ rendered = <<>>
  /\ PromptIdle

verifier == <<pc, data_source_id, timeout, clock, locals, i, raised, history>>

\* lines 173-187: the lists are fetched, the operator picks a type and a
\* name, and the name is looked up among the existing data sources
Select ==
  /\ wpc = "select"
  /\ \E data_sources \in DataSourceLists, name \in Names :
       /\ ds_name' = name
       /\ ds' = CheckDataSourceExists(data_sources, name)
       /\ matches' = {data_sources[k].id : k \in
                        {j \in 1..Len(data_sources) : data_sources[j].name = name}}
  /\ wpc' = IF ds' # None THEN "confirm" ELSE "config"
  /\ UNCHANGED <<run_tests, wreturn, wraised, reused, configured, created,
                 rendered>>
  /\ UNCHANGED <<verifier, prompt>>

\* lines 173-174: fetching the lists raises
SelectRaises ==
  /\ wpc = "select"
  /\ wraised' = "get_data_sources"
  /\ wpc' = "failed"
  /\ UNCHANGED <<ds_name, ds, run_tests, wreturn, matches, reused, configured,
                 created, rendered>>
  /\ UNCHANGED <<verifier, prompt>>

\* lines 188-193: reuse the data source found, or start over in a fresh call
\* whose result is returned as it is
ConfirmReuse ==
  /\ wpc = "confirm"
  /\ \E use_existing_ds \in BOOLEAN :
       IF use_existing_ds
         THEN /\ reused' = TRUE
              /\ wreturn' = ds.id
              /\ wpc' = AfterReuseAccepted
              /\ UNCHANGED <<ds_name, ds, matches>>
         ELSE /\ wpc' = "select"
              /\ ds_name' = ""
              /\ ds' = None
              /\ matches' = {}
              /\ UNCHANGED <<reused, wreturn>>
  /\ UNCHANGED <<run_tests, wraised, configured, created, rendered>>
  /\ UNCHANGED <<verifier, prompt>>

\* line 195, lines 51-63: the credentials, the temporary schema and the
\* float tolerance are asked for
CreateConfig ==
  /\ wpc = "config"
  /\ configured' = TRUE
  /\ wpc' = "create"
  /\ UNCHANGED <<ds_name, ds, run_tests, wreturn, wraised, matches, reused,
                 created, rendered>>
  /\ UNCHANGED <<verifier, prompt>>

\* lines 196-203: the data source is created remotely
Create ==
  /\ wpc = "create"
  /\ \E id \in DataSourceIds : ds' = [id |-> id, name |-> ds_name]
  /\ created' = created + 1
  /\ wpc' = "ask_tests"
  /\ UNCHANGED <<ds_name, run_tests, wreturn, wraised, matches, reused,
                 configured, rendered>>
  /\ UNCHANGED <<verifier, prompt>>

\* line 196: api.create_data_source raises
CreateRaises ==
  /\ wpc = "create"
  /\ created' = created + 1
  /\ wraised' = "create_data_source"
  /\ wpc' = "failed"
  /\ UNCHANGED <<ds_name, ds, run_tests, wreturn, matches, reused, configured,
                 rendered>>
  /\ UNCHANGED <<verifier, prompt>>

\* lines 204-206, 211: the operator is asked whether to run the tests;
\* on yes _test_data_source is called with the default timeout
AskRunTests ==
  /\ wpc = "ask_tests"
  /\ \E answer \in BOOLEAN :
       /\ run_tests' = IF answer THEN "yes" ELSE "no"
       /\ IF RunsTests(answer)
            THEN /\ wpc' = "testing"
                 /\ pc' = "submit"
                 /\ data_source_id' = ds.id
                 /\ timeout' = DefaultTimeout
                 /\ UNCHANGED wreturn
            ELSE /\ wpc' = "done"
                 /\ wreturn' = ds.id
                 /\ UNCHANGED <<pc, data_source_id, timeout>>
  /\ UNCHANGED <<ds_name, ds, wraised, matches, reused, configured, created,
                 rendered>>
  /\ UNCHANGED <<clock, locals, i, raised, history, prompt>>

\* line 206: _test_data_source has returned its list
TestsReturn ==
  /\ wpc = "testing"
  /\ pc = "returned"
  /\ wpc' = AfterTests
  /\ UNCHANGED <<ds_name, ds, run_tests, wreturn, wraised, matches, reused,
                 configured, created, rendered>>
  /\ UNCHANGED <<verifier, prompt>>

\* line 206: _test_data_source has raised; nothing catches it here either
TestsRaise ==
  /\ wpc = "testing"
  /\ pc = "raised"
  /\ wraised' = raised
  /\ wpc' = "failed"
  /\ UNCHANGED <<ds_name, ds, run_tests, wreturn, matches, reused, configured,
                 created, rendered>>
  /\ UNCHANGED <<verifier, prompt>>

\* line 207, lines 162-169: the table of results is rendered
Render ==
  /\ wpc = "render"
  /\ rendered' = Append(rendered, results)
  /\ wpc' = "verdict"
  /\ UNCHANGED <<ds_name, ds, run_tests, wreturn, wraised, matches, reused,
                 configured, created>>
  /\ UNCHANGED <<verifier, prompt>>

\* lines 208-211: a FAILED result raises ValueError, otherwise ds.id is
\* returned
Verdict ==
  /\ wpc = "verdict"
  /\ IF AnyFailed(results)
       THEN /\ wraised' = "ValueError"
            /\ wpc' = "failed"
            /\ UNCHANGED wreturn
       ELSE /\ wreturn' = ds.id
            /\ wpc' = "done"
            /\ UNCHANGED wraised
  /\ UNCHANGED <<ds_name, ds, run_tests, matches, reused, configured, created,
                 rendered>>
  /\ UNCHANGED <<verifier, prompt>>

NextWorkflow ==
  \/ Select
  \/ SelectRaises
  \/ ConfirmReuse
  \/ CreateConfig
  \/ Create
  \/ CreateRaises
  \/ AskRunTests
  \/ TestsReturn
  \/ TestsRaise
  \/ Render
  \/ Verdict
  \/ Next

SpecWorkflow == InitWorkflow /\ [][NextWorkflow]_vars

\* ------------------------------------------------------------ properties

Count(res, n) == Cardinality({k \in 1..Len(res) : res[k].name = n})
Statuses(res) == {res[k].status : k \in 1..Len(res)}
LoggedNames == {doneLog[k].name : k \in 1..Len(doneLog)}
ApiCalls == {"test_data_source", "check_data_source_test_results"}
Called == submitted # <<>>

RECURSIVE Pow2(_)
Pow2(k) == IF k = 0 THEN 1 ELSE 2 * Pow2(k - 1)


IsDigits(str) == str # <<>> /\ \A k \in 1..Len(str) : str[k] \in Range(DigitChars)
DigitValue(c) == CHOOSE d \in 0..9 : DigitChars[d + 1] = c
RECURSIVE StrToInt(_)
StrToInt(str) ==
  IF Len(str) = 1 THEN DigitValue(str[1])
  ELSE 10 * StrToInt(SubSeq(str, 1, Len(str) - 1)) + DigitValue(str[Len(str)])
\* the text holds the decimal numeral of n, delimited by non-digits
Mentions(text, n) ==
  \E a \in 1..Len(text) : \E b \in a..Len(text) :
    /\ IsDigits(SubSeq(text, a, b))
    /\ StrToInt(SubSeq(text, a, b)) = n
    /\ (a > 1 => ~IsDigits(<<text[a - 1]>>))
    /\ (b < Len(text) => ~IsDigits(<<text[b + 1]>>))

\* C1: whenever _test_data_source returns, the result list has exactly three
\* entries, exactly one for each of connection, temp_schema, schema_download.
C1_ExactlyOnePerName ==
  pc = "returned" =>
    /\ Len(results) = 3
    /\ \A n \in CheckedTests : Count(results, n) = 1
    /\ \A k \in 1..Len(results) : results[k].name \in CheckedTests

\* a call that returned with some sub-checks done and some timed out
C1_Witness ==
  /\ pc = "returned"
  /\ expired
  /\ doneLog # <<>>
  /\ Len(results) = 3

\* C2: the polling loop exits no later than timeout seconds plus the round
\* trip of one poll (at most MaxLatency) after the recorded start time.
C2_BoundedByTimeout ==
  pc = "returned" => clock - start <= timeout + MaxLatency

\* C3: the k-th sleep (k = 0, 1, 2, ...) lasts 2^k, and the delay held for
\* the next sleep is 2^(number of sleeps so far): never capped, never reset.
C3_DelaysDouble ==
  /\ \A k \in 1..Len(sleeps) : sleeps[k] = Pow2(k - 1)
  /\ Called => seconds = Pow2(Len(sleeps))

\* a call that has slept 1, 2, 4, 8 and more
C3_Witness == Len(sleeps) >= 5 /\ sleeps[4] = 8

\* C4: on timeout every name still pending has exactly one result, a SKIP
\* whose description mentions the configured timeout; every name resolved
\* earlier has the status it reported; when nothing was ever reported done
\* all three results are SKIP.
C4_TimeoutSkips ==
  (pc = "returned" /\ checked_tests # {}) =>
    /\ \A n \in checked_tests :
         /\ Count(results, n) = 1
         /\ \A k \in 1..Len(results) :
              results[k].name = n =>
                /\ results[k].status = SKIP
                /\ Mentions(results[k].description, timeout)
    /\ \A j \in 1..Len(doneLog) :
         \E k \in 1..Len(results) :
           /\ results[k].name = doneLog[j].name
           /\ results[k].status = doneLog[j].result.status
    /\ doneLog = <<>> => (Len(results) = 3 /\ Statuses(results) = {SKIP})

\* timeout 2, connection reported DONE, the other two timed out
C4_Witness ==
  /\ pc = "returned"
  /\ timeout = 2
  /\ checked_tests = {"temp_schema", "schema_download"}
  /\ results[1].name = "connection"
  /\ results[1].status = DONE
  /\ results[2].status = SKIP
  /\ results[3].status = SKIP

\* C5 as stated: when all three sub-checks were reported done the returned
\* list holds no SKIP entry, and nothing is polled or slept after the poll
\* that emptied the pending set.
C5_NoSkipEntries ==
  /\ [](pc = "returned" /\ Len(doneLog) = 3 => SKIP \notin Statuses(results))
  /\ [][Called /\ checked_tests = {} => sleeps' = sleeps /\ pollJobs' = pollJobs]_vars

\* C5 amended: when all three sub-checks were reported done the returned
\* list holds no entry made by the timeout branch, each entry carrying the
\* result status its sub-check reported (SKIP only when the remote reported
\* SKIP), and nothing is polled or slept after the poll that emptied the
\* pending set.
C5_NoTimeoutEntries ==
  /\ [](pc = "returned" /\ Len(doneLog) = 3 =>
          /\ ~expired
          /\ Len(results) = 3
          /\ \A k \in 1..3 : results[k] = TDataSourceTestStage(doneLog[k]))
  /\ [][Called /\ checked_tests = {} => sleeps' = sleeps /\ pollJobs' = pollJobs]_vars

\* all three reported done, one of them with result status SKIP
C5_Witness ==
  /\ pc = "returned"
  /\ Len(doneLog) = 3
  /\ SKIP \in Statuses(results)
  /\ Len(sleeps) >= 1

\* C6: the pending set only shrinks, and a name removed from it keeps
\* exactly one result, whatever later snapshot entries say.
C6_PendingOnlyShrinks ==
  [][Called =>
       /\ checked_tests' \subseteq checked_tests
       /\ \A n \in CheckedTests \ checked_tests :
            Count(results, n) = 1 /\ Count(results', n) = 1]_vars

\* a done entry arrived for a name that had been resolved before
C6_Witness ==
  /\ staleSeen
  /\ Len(pollJobs) >= 2
  /\ checked_tests # {}

\* C7: once a timeout check has found the deadline exceeded there is no
\* further poll and no further sleep; a sleep is only started after a poll
\* whose snapshot left names pending within the deadline, and a poll only
\* after the previous poll's sleep.
C7_NoPollAfterDeadline ==
  /\ [][expired => pollJobs' = pollJobs /\ sleeps' = sleeps]_vars
  /\ [][sleeps' # sleeps =>
          /\ Len(pollJobs) = Len(sleeps) + 1
          /\ checked_tests # {}
          /\ clock - start <= timeout
          /\ seconds' = 2 * seconds]_vars
  /\ [][pollJobs' # pollJobs => Len(sleeps) = Len(pollJobs)]_vars

\* the deadline was found exceeded after at least one sleep
C7_Witness ==
  /\ expired
  /\ pc = "returned"
  /\ Len(sleeps) >= 1

\* C8: the list holds the sub-checks reported done, in the order they were
\* first seen done, followed by the timed-out entries.
C8_CompletionOrderThenTimedOut ==
  Called =>
    /\ Len(results) >= Len(doneLog)
    /\ \A k \in 1..Len(doneLog) : results[k] = TDataSourceTestStage(doneLog[k])
    /\ \A k \in (Len(doneLog) + 1)..Len(results) :
         /\ results[k].name \notin LoggedNames
         /\ results[k].status = SKIP

\* two sub-checks done in different polls, the third timed out
C8_Witness ==
  /\ pc = "returned"
  /\ expired
  /\ Len(doneLog) = 2
  /\ Len(results) = 3
  /\ Len(pollJobs) >= 2

\* C9: the call raises only when an API call raised; with every API call
\* succeeding it ends by returning, also with FAILED results and SKIP ones.
C9_NeverRaisesOnOutcome ==
  /\ pc = "raised" => raised \in ApiCalls
  /\ (raised = "" /\ ~ENABLED Next) => pc = "returned"

\* a call that returned a FAILED result next to a timed-out one
C9_Witness ==
  /\ pc = "returned"
  /\ raised = ""
  /\ FAILED \in Statuses(results)
  /\ expired

\* C10: the job is submitted once, before the first poll, and every poll is
\* made with the handle that submission returned.
C10_SubmittedOnce ==
  /\ Len(submitted) <= 1
  /\ pollJobs # <<>> =>
       /\ Len(submitted) = 1
       /\ \A k \in 1..Len(pollJobs) : pollJobs[k] = submitted[1]

\* several polls made with a handle that differs from the data source id
C10_Witness ==
  /\ Len(pollJobs) >= 3
  /\ Len(submitted) = 1
  /\ submitted[1] # data_source_id

\* C11: when the submission of the test job raises, the call ends with that
\* error: no status poll, no sleep, no handle, no result list.
C11_SubmissionErrorSurfaces ==
  raised = "test_data_source" =>
    /\ pc = "raised"
    /\ submitted = <<>>
    /\ pollJobs = <<>>
    /\ sleeps = <<>>
    /\ results = <<>>

\* the submission raised
C11_Witness ==
  /\ raised = "test_data_source"
  /\ pc = "raised"
  /\ clock > 0

\* C12: when a status poll raises, the call ends with that error: the poll is
\* not retried, nothing is polled or slept afterwards, and the result list,
\* left as it was, is not returned.
C12_PollErrorPropagates ==
  /\ [](raised = "check_data_source_test_results" =>
          /\ pc = "raised"
          /\ Len(results) = Len(doneLog)
          /\ ~expired)
  /\ [][raised = "check_data_source_test_results" =>
          /\ pollJobs' = pollJobs
          /\ sleeps' = sleeps
          /\ results' = results
          /\ pc' # "returned"]_vars

\* a poll raised after earlier polls had resolved part of the sub-checks
C12_Witness ==
  /\ raised = "check_data_source_test_results"
  /\ pc = "raised"
  /\ Len(pollJobs) >= 2
  /\ results # <<>>
  /\ checked_tests # {}

ResultNames == {results[k].name : k \in 1..Len(results)}
SkipStages == {SkipStage(n) : n \in CheckedTests}

RECURSIVE Sum(_)
Sum(durations) ==
  IF durations = <<>> THEN 0
  ELSE durations[1] + Sum(SubSeq(durations, 2, Len(durations)))

\* C17: until the timeout branch runs, the pending set and the names in the
\* result list are disjoint and together are the three tracked names, no
\* name has two results, no result is a SKIP stage of the verifier's own
\* making, and the result list only ever grows at its end.
C17_LoopInvariant ==
  /\ [](Called /\ ~expired =>
          /\ checked_tests \cap ResultNames = {}
          /\ checked_tests \cup ResultNames = CheckedTests
          /\ Cardinality(ResultNames) = Len(results)
          /\ \A k \in 1..Len(results) : results[k] \notin SkipStages)
  /\ [][Called =>
          /\ Len(results') >= Len(results)
          /\ SubSeq(results', 1, Len(results)) = results]_vars

\* between two polls, with two sub-checks resolved and one pending
C17_Witness ==
  /\ pc = "sleep"
  /\ ~expired
  /\ Len(results) = 2
  /\ Cardinality(checked_tests) = 1
  /\ Len(pollJobs) >= 2

\* C18: a sleep is only started within the deadline and lasts at most the
\* time elapsed so far plus 1, hence at most timeout + 1; every poll is
\* issued no later than 2 * timeout + 1 after the start and the loop exits
\* when that poll has returned, without any further delay.  With the default
\* timeout and polls that take no time, a call that times out has made 8
\* polls and exits 127 after the start.
C18_TwiceTheTimeout ==
  /\ [][sleeps' # sleeps =>
          /\ clock - start <= timeout
          /\ seconds <= (clock - start) + 1
          /\ clock' - clock = seconds]_vars
  /\ [][pollJobs' # pollJobs =>
          /\ clock - start <= 2 * timeout + 1
          /\ clock' - clock <= MaxLatency]_vars
  /\ [][pc # "returned" /\ pc' = "returned" => pc = "for" /\ clock' = clock]_vars
  /\ [](pc = "returned" => clock - start <= 2 * timeout + 1 + MaxLatency)
  /\ [](/\ pc = "returned"
        /\ expired
        /\ timeout = DefaultTimeout
        /\ clock - start = Sum(sleeps)
        => (clock - start = 127 /\ Len(pollJobs) = 8))

\* the default timeout, no poll latency, nothing ever done: exit at 127
C18_Witness ==
  /\ pc = "returned"
  /\ timeout = DefaultTimeout
  /\ doneLog = <<>>
  /\ clock - start = 127
  /\ sleeps = <<1, 2, 4, 8, 16, 32, 64>>

\* C19: a call that returns has polled at least once, and every sub-check
\* seen done in any poll, also one that returned after the deadline, has the
\* stage of its reported result and no SKIP stage of the timeout branch.
C19_SnapshotBeforeDeadline ==
  pc = "returned" =>
    /\ Len(pollJobs) >= 1
    /\ \A j \in 1..Len(doneLog) :
         /\ \E k \in 1..Len(results) : results[k] = TDataSourceTestStage(doneLog[j])
         /\ \A k \in 1..Len(results) :
              results[k].name = doneLog[j].name => results[k] \notin SkipStages

\* timeout 0: the only poll returned after the deadline and reported a
\* sub-check done
C19_Witness ==
  /\ pc = "returned"
  /\ timeout = 0
  /\ expired
  /\ Len(pollJobs) = 1
  /\ sleeps = <<>>
  /\ doneLog # <<>>

Dots(str) == Cardinality({k \in 1..Len(str) : str[k] = "."})

\* C16: the temporary-schema prompt returns a value exactly when it holds
\* one '.', and asks again for every other value, so what it returns always
\* holds exactly one '.'; "m" is rejected, "m.p" is accepted.
C16_ExactlyOneDot ==
  /\ [](ppc = "returned" => response = value /\ Dots(response) = 1)
  /\ [][ppc = "process" =>
          /\ Dots(value) = 1 => ppc' = "returned" /\ response' = value
          /\ Dots(value) # 1 => ppc' = "ask" /\ response' = response]_vars
  /\ [](InvalidResponse(<<"m">>) /\ ~InvalidResponse(<<"m", ".", "p">>))

\* a value with one '.' was returned after another value had been rejected
C16_Witness ==
  /\ ppc = "returned"
  /\ reprompted
  /\ response = <<"m", ".", "p">>

\* C13: after the verifier has returned, the workflow raises its error when
\* some result is FAILED and returns the identifier of the created data
\* source otherwise; results that are only DONE or SKIP never make it fail.
C13_FailedFailsWorkflow ==
  /\ [](wraised = "ValueError" =>
          /\ wpc = "failed"
          /\ pc = "returned"
          /\ FAILED \in Statuses(results)
          /\ wreturn = 0)
  /\ [](wpc = "done" /\ run_tests = "yes" =>
          /\ pc = "returned"
          /\ FAILED \notin Statuses(results)
          /\ wraised = ""
          /\ wreturn = ds.id
          /\ wreturn = data_source_id)
  /\ [][wpc = "verdict" =>
          /\ FAILED \in Statuses(results) => wraised' = "ValueError"
          /\ Statuses(results) \subseteq {DONE, SKIP} => wpc' = "done"]_vars

\* the workflow returned the identifier although a sub-check timed out
C13_Witness ==
  /\ wpc = "done"
  /\ run_tests = "yes"
  /\ expired
  /\ Statuses(results) = {DONE, SKIP}
  /\ wreturn = ds.id

\* C14: once the operator has accepted an existing data source, the workflow
\* has returned the identifier of a listed data source of the chosen name,
\* and create_ds_config has not prompted and nothing was created remotely.
C14_ReuseAsksNothing ==
  reused =>
    /\ wpc = "done"
    /\ wraised = ""
    /\ wreturn \in matches
    /\ wreturn = ds.id
    /\ ds.name = ds_name
    /\ ~configured
    /\ created = 0

\* an existing data source named prod was accepted
C14_Witness ==
  /\ reused
  /\ wpc = "done"
  /\ ds_name = "prod"
  /\ wreturn = 3
  /\ matches = {2, 3}

\* C15: when the workflow fails because of a FAILED result, the complete
\* result list has been rendered before.
C15_RenderedBeforeFailure ==
  /\ [](wraised = "ValueError" => rendered = <<results>> /\ Len(results) = 3)
  /\ [][wraised # "ValueError" /\ wraised' = "ValueError" =>
          rendered = <<results>> /\ rendered' = rendered]_vars

\* the workflow failed on a FAILED result next to a timed-out one
C15_Witness ==
  /\ wraised = "ValueError"
  /\ wpc = "failed"
  /\ Len(rendered) = 1
  /\ Statuses(rendered[1]) = {FAILED, SKIP}

\* C20: the verifier is only ever started, a job submitted or a status
\* polled, after one successful remote creation and a yes to running the
\* tests; after a reuse, a refusal of the tests or a failed creation nothing
\* of it has happened.
C20_TestsOnlyAfterCreation ==
  /\ (pc # "idle" \/ submitted # <<>> \/ pollJobs # <<>>) =>
       /\ created = 1
       /\ configured
       /\ ds # None
       /\ data_source_id = ds.id
       /\ run_tests = "yes"
       /\ ~reused
       /\ wraised # "create_data_source"
  /\ (reused \/ run_tests = "no" \/ wraised = "create_data_source") =>
       /\ pc = "idle"
       /\ submitted = <<>>
       /\ pollJobs = <<>>

\* the tests were refused after a creation: the workflow is done, no job
C20_Witness ==
  /\ wpc = "done"
  /\ created = 1
  /\ run_tests = "no"
  /\ wreturn = ds.id
  /\ submitted = <<>>

====
